---- MODULE Spec2Model ----
(***************************************************************************)
(* Document-processing pipeline of clever-inspect.                         *)
(*                                                                         *)
(* Spec    : the process-documents edge function (job record, progress     *)
(*           checkpoints, vector points, entity rows), several handler     *)
(*           invocations interleaved at their await points.                *)
(*                                                                         *)
(* Environment assumptions: the job store (supabase client) answers every  *)
(* call and applies an update to the rows matching .eq('id', job_id); the  *)
(* external HTTP services (OpenAI, Qdrant) may fail on every call.         *)
(***************************************************************************)
EXTENDS Integers, Sequences, FiniteSets, TLC

\* ---------------------------------------------------------------- bounds
MaxRuns == 2        \* handler invocations of process-documents
MaxJobs == 1        \* job ids that requests may carry
MaxEntities == 1    \* entities in one extraction result
MaxChunks == 2      \* chunks of one document
MaxEdpRuns == 2     \* handler invocations of enhanced-doc-processing

Runs == 1..MaxRuns
JobIds == 1..MaxJobs
EdpRuns == 1..MaxEdpRuns
NoJobId == 0        \* request body without job_id (undefined is falsy)

VARIABLES
  jobs,        \* table processing_jobs: job id -> row
  run,         \* process-documents invocations: run -> locals and position
  points,      \* Qdrant collection "documents": set of stored points
  entityRows,  \* table extracted_entities: set of inserted rows
  edp,         \* enhanced-doc-processing invocations: run -> locals and position
  qdrant,      \* the Qdrant server the enhanced pipeline talks to
  ui,          \* the Index page: its steps state and its runAnalysis calls
  call         \* one application of a pure function: its input and its result

pdVars == <<jobs, run, points, entityRows>>
edpVars == <<edp, qdrant>>
uiVars == <<ui, call>>
vars == <<jobs, run, points, entityRows, edp, qdrant, ui, call>>

\* ---------------------------------------------------------------- strings
\* A string is a sequence of one-character strings.
Digits == {"0", "1", "2", "3", "4", "5", "6", "7", "8", "9"}
UpperLetters ==
  {"A", "B", "C", "D", "E", "F", "G", "H", "I", "J", "K", "L", "M",
   "N", "O", "P", "Q", "R", "S", "T", "U", "V", "W", "X", "Y", "Z"}
LowerLetters ==
  {"a", "b", "c", "d", "e", "f", "g", "h", "i", "j", "k", "l", "m",
   "n", "o", "p", "q", "r", "s", "t", "u", "v", "w", "x", "y", "z"}
\* \s of a JavaScript regular expression (the members that occur here)
Whitespace == {" ", "\t", "\n"}

LowerOf ==
  [c \in UpperLetters |->
     CASE c = "A" -> "a" [] c = "B" -> "b" [] c = "C" -> "c" [] c = "D" -> "d"
       [] c = "E" -> "e" [] c = "F" -> "f" [] c = "G" -> "g" [] c = "H" -> "h"
       [] c = "I" -> "i" [] c = "J" -> "j" [] c = "K" -> "k" [] c = "L" -> "l"
       [] c = "M" -> "m" [] c = "N" -> "n" [] c = "O" -> "o" [] c = "P" -> "p"
       [] c = "Q" -> "q" [] c = "R" -> "r" [] c = "S" -> "s" [] c = "T" -> "t"
       [] c = "U" -> "u" [] c = "V" -> "v" [] c = "W" -> "w" [] c = "X" -> "x"
       [] c = "Y" -> "y" [] c = "Z" -> "z"]

\* the character with the /i flag applied
Fold(c) == IF c \in UpperLetters THEN LowerOf[c] ELSE c

DigitValue ==
  [c \in Digits |->
     CASE c = "0" -> 0 [] c = "1" -> 1 [] c = "2" -> 2 [] c = "3" -> 3
       [] c = "4" -> 4 [] c = "5" -> 5 [] c = "6" -> 6 [] c = "7" -> 7
       [] c = "8" -> 8 [] c = "9" -> 9]

IsLetter(c) == c \in UpperLetters \cup LowerLetters

Drop(s, n) == SubSeq(s, n + 1, Len(s))

\* s has the (lower-case) literal lit at position i (1-based), ignoring case
HasAtCI(s, i, lit) ==
  /\ i + Len(lit) - 1 <= Len(s)
  /\ \A k \in 1..Len(lit) : Fold(s[i + k - 1]) = lit[k]

AllDigits(s) == \A i \in 1..Len(s) : s[i] \in Digits

\* String.prototype.trim
RECURSIVE TrimLeft(_)
TrimLeft(s) == IF s # <<>> /\ Head(s) \in Whitespace THEN TrimLeft(Tail(s)) ELSE s
RECURSIVE TrimRight(_)
TrimRight(s) ==
  IF s # <<>> /\ s[Len(s)] \in Whitespace THEN TrimRight(SubSeq(s, 1, Len(s) - 1)) ELSE s
Trim(s) == TrimRight(TrimLeft(s))

\* s.replace(/\s/g, '')
RemoveWhitespace(s) == SelectSeq(s, LAMBDA c : c \notin Whitespace)

\* the length of the run of digits of s that starts at position i
RECURSIVE DigitRun(_, _)
DigitRun(s, i) == IF i <= Len(s) /\ s[i] \in Digits THEN 1 + DigitRun(s, i + 1) ELSE 0

\* the length of the run of whitespace of s that starts at position i
RECURSIVE SpaceRun(_, _)
SpaceRun(s, i) == IF i <= Len(s) /\ s[i] \in Whitespace THEN 1 + SpaceRun(s, i + 1) ELSE 0

\* the number a string of digits denotes
RECURSIVE NumberOf(_)
NumberOf(s) ==
  IF s = <<>> THEN 0 ELSE 10 * NumberOf(SubSeq(s, 1, Len(s) - 1)) + DigitValue[s[Len(s)]]

\* ------------------------------------------------------- validateDocument
\* ExtractedData: a function from field names to string values; a field the
\* model left out is not in its domain.
\* JavaScript truthiness of extracted[field] for string values
Truthy(extracted, field) == field \in DOMAIN extracted /\ extracted[field] # <<>>

\* a validator that does not require the product
requiredFieldsNoProduct == <<"supplier", "buyer">>
requiredFields == <<"supplier", "buyer", "product">>

\* !extracted[field] || (typeof extracted[field] === 'string' && !extracted[field].trim())
MissingRequired(extracted, field) ==
  \/ ~Truthy(extracted, field)
  \/ Trim(extracted[field]) = <<>>

\* /^(INV|INVOICE|#)?-?\d{3,10}$/i
InvoicePrefixes == {<<>>, <<"i", "n", "v">>, <<"i", "n", "v", "o", "i", "c", "e">>, <<"#">>}
InvoiceNumberOk(s) ==
  \E p \in InvoicePrefixes, dash \in {<<>>, <<"-">>} :
    /\ HasAtCI(s, 1, p \o dash)
    /\ LET digits == Drop(s, Len(p) + Len(dash)) IN
       Len(digits) \in 3..10 /\ AllDigits(digits)

\* /^\d{6,10}$/ on the value without whitespace
HsCodeOk(s) == LET t == RemoveWhitespace(s) IN Len(t) \in 6..10 /\ AllDigits(t)

\* a container rule that accepts any letters followed by seven digits
ContainerNoOkAnyPrefix(s) ==
  LET t == RemoveWhitespace(s) IN
  /\ Len(t) >= 8
  /\ \A i \in 1..(Len(t) - 7) : IsLetter(t[i])
  /\ \A i \in (Len(t) - 6)..Len(t) : t[i] \in Digits

\* /^[A-Z]{4}\d{7}$/i on the value without whitespace
ContainerNoOk(s) ==
  LET t == RemoveWhitespace(s) IN
  /\ Len(t) = 11
  /\ \A i \in 1..4 : IsLetter(t[i])
  /\ \A i \in 5..11 : t[i] \in Digits

\* kg|lbs?|tons?|tonnes? at position i: decided by its shortest alternatives
UnitAt(s, i) ==
  \/ HasAtCI(s, i, <<"k", "g">>)
  \/ HasAtCI(s, i, <<"l", "b">>)
  \/ HasAtCI(s, i, <<"t", "o", "n">>)

\* /(\d+(?:[.,]\d+)?)\s*(kg|lbs?|tons?|tonnes?)/i tried at start position i.
\* \d+ is greedy, and giving a digit back leaves a digit in front of
\* [.,], \s or the unit, so only the whole run of digits can match; the
\* same holds for the fraction.  The result is <<matched, integer digits,
\* fraction digits>>.
WeightMatchAt(s, i) ==
  LET n == DigitRun(s, i)
      hasFrac == /\ n > 0
                 /\ i + n <= Len(s)
                 /\ s[i + n] \in {".", ","}
                 /\ DigitRun(s, i + n + 1) > 0
      m == IF hasFrac THEN DigitRun(s, i + n + 1) ELSE 0
      after == IF hasFrac THEN i + n + 1 + m ELSE i + n
      unitPos == after + SpaceRun(s, after)
  IN [matched |-> n > 0 /\ UnitAt(s, unitPos),
      int |-> SubSeq(s, i, i + n - 1),
      frac |-> IF hasFrac THEN SubSeq(s, i + n + 1, i + n + m) ELSE <<>>]

\* String.prototype.match: the match at the leftmost start position
WeightStarts(s) == {i \in 1..Len(s) : WeightMatchAt(s, i).matched}
WeightMatch(s) ==
  IF WeightStarts(s) = {} THEN [matched |-> FALSE, int |-> <<>>, frac |-> <<>>]
  ELSE WeightMatchAt(s, CHOOSE i \in WeightStarts(s) : \A k \in WeightStarts(s) : i <= k)

\* value <= 0 || value > 100000 for value = parseFloat(int "." frac)
WeightUnrealistic(m) ==
  LET whole == NumberOf(m.int)
      part == NumberOf(m.frac)
  IN \/ (whole = 0 /\ part = 0)
     \/ whole > 100000
     \/ (whole = 100000 /\ part > 0)

\* /\d{1,2}[-\/]\d{1,2}[-\/]\d{2,4}/ anywhere in the value
DatePatternOk(s) ==
  \E i \in 1..Len(s), a \in 1..2, b \in 1..2 :
    LET sep1 == i + a
        sep2 == sep1 + 1 + b
    IN /\ sep2 + 2 <= Len(s)
       /\ AllDigits(SubSeq(s, i, sep1 - 1))
       /\ s[sep1] \in {"-", "/"}
       /\ AllDigits(SubSeq(s, sep1 + 1, sep2 - 1))
       /\ s[sep2] \in {"-", "/"}
       /\ AllDigits(SubSeq(s, sep2 + 1, sep2 + 2))

\* /\d+/ anywhere in the value
QuantityOk(s) == \E i \in 1..Len(s) : s[i] \in Digits

Warn(cond, msg) == IF cond THEN <<msg>> ELSE <<>>

\* validateDocument (layout-aware variant): every rule is evaluated, errors
\* and warnings are pushed in source order
validateDocument(extracted) ==
  LET missing == SelectSeq(requiredFields, LAMBDA f : MissingRequired(extracted, f))
      errors == [i \in 1..Len(missing) |-> <<"Missing required field: ", missing[i]>>]
      weight == IF Truthy(extracted, "weight")
                  THEN WeightMatch(extracted["weight"])
                  ELSE [matched |-> FALSE, int |-> <<>>, frac |-> <<>>]
      warnings ==
        Warn(Truthy(extracted, "invoiceNumber")
               /\ ~InvoiceNumberOk(extracted["invoiceNumber"]),
             "Invoice number format may be invalid (expected: INV-12345 or similar)")
        \o Warn(Truthy(extracted, "hsCode") /\ ~HsCodeOk(extracted["hsCode"]),
                "HS Code format invalid (expected: 6-10 digits)")
        \o Warn(Truthy(extracted, "containerNo")
                  /\ ~ContainerNoOk(extracted["containerNo"]),
                "Container number format invalid (expected: ABCD1234567)")
        \o Warn(Truthy(extracted, "weight") /\ ~weight.matched,
                "Weight format unclear (expected: number + unit like \"1000 kg\")")
        \o Warn(Truthy(extracted, "weight") /\ weight.matched
                  /\ WeightUnrealistic(weight), "Weight value seems unrealistic")
        \o Warn(Truthy(extracted, "inspectionDate")
                  /\ ~DatePatternOk(extracted["inspectionDate"]),
                "Inspection date format unclear")
        \o Warn(Truthy(extracted, "quantityDeclared")
                  /\ ~QuantityOk(extracted["quantityDeclared"]),
                "Quantity format unclear (should contain numbers)")
  IN [passed |-> Len(errors) = 0, errors |-> errors, warnings |-> warnings]

\* ------------------------------------------------------- processing_jobs
NoRow ==
  [exists |-> FALSE, status |-> "pending", progress |-> 0,
   result |-> "null", error_message |-> "null"]

\* supabase.from('processing_jobs').update(fields).eq('id', j):
\* rewrites the named columns of the matching row, no row -> nothing.
UpdateJob(tbl, j, fields) ==
  IF j \in JobIds /\ tbl[j].exists
    THEN [tbl EXCEPT ![j] =
            [k \in DOMAIN tbl[j] |->
               IF k \in DOMAIN fields THEN fields[k] ELSE tbl[j][k]]]
    ELSE tbl

\* DocumentProcessingAPI.createProcessingJob: insert {status:'pending', progress:0}
CreateProcessingJob(j) ==
  /\ ~jobs[j].exists
  /\ jobs' = [jobs EXCEPT ![j] = [NoRow EXCEPT !.exists = TRUE]]
  /\ UNCHANGED <<run, points, entityRows>>

\* ------------------------------------------------------------- responses
NoResponse == [outcome |-> "pending", status |-> 0, keys |-> {}]
Returned(code, ks) == [outcome |-> "returned", status |-> code, keys |-> ks]
\* the handler's promise rejects: nothing of the handler's own is returned
Threw == [outcome |-> "threw", status |-> 0, keys |-> {}]

\* The invocation is over: its chunk, embedding and entity locals are gone.
Finished(rec, response) ==
  [rec EXCEPT !.pc = "done", !.resp = response, !.entities = 0, !.inserted = 0,
              !.nchunks = 0, !.embeddings = 0, !.dataIsNull = FALSE]

IdleRun ==
  [pc |-> "idle", request |-> "none", job_id |-> NoJobId, bodyUsed |-> FALSE,
   existingJob |-> FALSE, stagesDone |-> 0, written |-> <<>>, entities |-> 0,
   inserted |-> 0, nchunks |-> 0, embeddings |-> 0, dataIsNull |-> FALSE,
   error |-> "null", resp |-> NoResponse]

\* ------------------------------------------- enhanced-doc-processing state
StepIds == <<"ocr", "layout", "ai", "vector", "validation">>
\* result.steps as the handler creates it
InitialSteps == <<"processing", "pending", "pending", "pending", "pending">>
NoSteps == <<>>
NoValidation == [passed |-> FALSE, errors |-> <<>>, warnings |-> <<>>]
NoExtracted == [f \in {} |-> <<>>]

\* result.embeddings as the handler creates it: []
NoEmbeddings == [vectors |-> 0, dims |-> 0]

NoEdpResponse ==
  [outcome |-> "pending", status |-> 0, keys |-> {}, steps |-> NoSteps,
   validation |-> NoValidation, embeddings |-> NoEmbeddings]

IdleEdp ==
  [pc |-> "idle", request |-> "none", steps |-> NoSteps, extracted |-> NoExtracted,
   nchunks |-> 0, embeddings |-> 0, embedFailed |-> FALSE, collectionReady |-> FALSE,
   vectorStored |-> FALSE, validation |-> NoValidation, error |-> "null",
   resp |-> NoEdpResponse]

\* ------------------------------------------------------ Index page state
\* const mockProcessingSteps = [...]: the five steps, all 'pending'
mockProcessingSteps == [i \in 1..5 |-> [id |-> StepIds[i], status |-> "pending"]]

\* useState<any | null>(null)
NullState == [isNull |-> TRUE, value |-> <<>>]
\* a state variable holding a value of the response
StateOf(v) == [isNull |-> FALSE, value |-> v]

\* useState([...mockProcessingSteps]), useState(null), useState(null),
\* useState([]); no runAnalysis call made yet
IdleUi ==
  [steps |-> mockProcessingSteps, extractedData |-> NullState,
   validation |-> NullState, embeddings |-> NoEmbeddings,
   invoked |-> [r \in EdpRuns |-> "none"]]

\* no pure function applied
NoCall == [fn |-> "none", input |-> <<>>, output |-> <<>>]

Init ==
  /\ jobs = [j \in JobIds |-> NoRow]
  /\ run = [r \in Runs |-> IdleRun]
  /\ points = {}
  /\ entityRows = {}
  /\ edp = [r \in EdpRuns |-> IdleEdp]
  /\ qdrant = [collection |-> FALSE, upserts |-> {}]
  /\ ui = IdleUi
  /\ call = NoCall

\* the enhanced pipeline may find the collection "documents" present or absent
InitEDP ==
  /\ jobs = [j \in JobIds |-> NoRow]
  /\ run = [r \in Runs |-> IdleRun]
  /\ points = {}
  /\ entityRows = {}
  /\ edp = [r \in EdpRuns |-> IdleEdp]
  /\ \E present \in BOOLEAN : qdrant = [collection |-> present, upserts |-> {}]
  /\ ui = IdleUi
  /\ call = NoCall

\* ------------------------------------------------ process-documents handler
\* The requests a client can send (ProcessingRequest plus the HTTP method).
\* body "malformed" is a POST whose body is empty or is not JSON.
Requests ==
  {[method |-> m, body |-> "object", document_content |-> FALSE,
    file_path |-> FALSE, job_id |-> NoJobId] : m \in {"OPTIONS", "GET"}}
  \cup
  {[method |-> "POST", body |-> "malformed", document_content |-> FALSE,
    file_path |-> FALSE, job_id |-> NoJobId]}
  \cup
  {[method |-> "POST", body |-> "object", document_content |-> dc,
    file_path |-> fp, job_id |-> j] :
      dc \in BOOLEAN, fp \in BOOLEAN, j \in JobIds \cup {NoJobId}}

\* What the request carried, as the handler classifies it.
RequestKind(req) ==
  IF req.method # "POST" THEN "not_post"
  ELSE IF req.body = "malformed" THEN "no_json_body"
  ELSE IF ~req.document_content /\ ~req.file_path THEN "no_content"
  ELSE "input"

HasJobId(r) == run[r].job_id # NoJobId

\* const documentId = job_id || crypto.randomUUID()
DocumentId(r) == IF HasJobId(r) THEN <<"job", run[r].job_id>> ELSE <<"uuid", r>>

\* One write of a progress checkpoint by run r, as the job row receives it.
WriteEntry(r, p, st) == [progress |-> p, status |-> st, stagesDone |-> run[r].stagesDone]

\* if (job_id) { await supabase...update(fields).eq('id', job_id) }
\* followed by the move to the next await point; a write is logged when a
\* row received it.
JobWrite(r, fields, st, next) ==
  LET j == run[r].job_id IN
  /\ jobs' = UpdateJob(jobs, j, fields)
  /\ run' = [run EXCEPT ![r].pc = next,
                        ![r].written =
                           IF j \in JobIds /\ jobs[j].exists
                             THEN Append(@, WriteEntry(r, fields.progress, st))
                             ELSE @]
  /\ UNCHANGED <<points, entityRows>>

\* serve(): method checks, req.json(), destructuring and the input check.
ServeEntry(r, req) ==
  /\ run[r].pc = "idle"
  /\ LET base == [run[r] EXCEPT !.request = RequestKind(req)] IN
     run' = [run EXCEPT ![r] =
       IF req.method = "OPTIONS"
         THEN Finished(base, Returned(200, {}))
       ELSE IF req.method # "POST"
         THEN Finished(base, Returned(405, {"error"}))
       ELSE IF req.body = "malformed"
         \* await req.json() reads the body and rejects
         THEN [base EXCEPT !.pc = "catch", !.bodyUsed = TRUE, !.error = "msg"]
       ELSE IF ~req.document_content /\ ~req.file_path
         THEN Finished([base EXCEPT !.bodyUsed = TRUE], Returned(400, {"error"}))
       ELSE [base EXCEPT !.pc = IF req.job_id # NoJobId THEN "lookup" ELSE "ocr",
                         !.bodyUsed = TRUE,
                         !.job_id = req.job_id]]
  /\ UNCHANGED <<jobs, points, entityRows>>

\* select('*').eq('id', job_id).single()
LookupJob(r) ==
  /\ run[r].pc = "lookup"
  /\ LET found == jobs[run[r].job_id].exists IN
     run' = [run EXCEPT ![r].existingJob = found,
                        ![r].pc = IF found THEN "setRunning" ELSE "ocr"]
  /\ UNCHANGED <<jobs, points, entityRows>>

\* if (existingJob) update({ status: 'running', progress: 10 })
SetRunning(r) ==
  /\ run[r].pc = "setRunning"
  /\ JobWrite(r, [status |-> "running", progress |-> 10], "running", "ocr")

\* a simulated stage (performOCR, parseLayout): no external call, cannot fail
LocalStage(r, at, n, next) ==
  /\ run[r].pc = at
  /\ run' = [run EXCEPT ![r].stagesDone = n,
                        ![r].pc = IF HasJobId(r) THEN next.job ELSE next.nojob]
  /\ UNCHANGED <<jobs, points, entityRows>>

PerformOCR(r) == LocalStage(r, "ocr", 1, [job |-> "p30", nojob |-> "layout"])
ParseLayout(r) == LocalStage(r, "layout", 2, [job |-> "p50", nojob |-> "extract"])

\* if (job_id) update({ progress: p })
Checkpoint(r, at, p, next) ==
  /\ run[r].pc = at
  /\ JobWrite(r, [progress |-> p], "same", next)

Progress30(r) == Checkpoint(r, "p30", 30, "layout")
Progress50(r) == Checkpoint(r, "p50", 50, "extract")
\* a checkpoint written with a value below its predecessor
Progress70Low(r) == Checkpoint(r, "p70", 40, "embed")
Progress70(r) == Checkpoint(r, "p70", 70, "embed")
Progress90(r) == Checkpoint(r, "p90", 90, "entities")

\* a stage error: throw, caught by the handler's catch block
Throw(r) == [run EXCEPT ![r].pc = "catch", ![r].error = "msg"]

\* extractStructuredData: fetch throws or !response.ok -> rethrow; else the
\* parsed (or fallback) ExtractedData with its entities
ExtractStructuredData(r, ok, n) ==
  /\ run[r].pc = "extract"
  /\ run' = IF ok
             THEN [run EXCEPT ![r].entities = n, ![r].stagesDone = 3,
                              ![r].pc = IF HasJobId(r) THEN "p70" ELSE "embed"]
             ELSE Throw(r)
  /\ UNCHANGED <<jobs, points, entityRows>>

\* extractStructuredData when the completion's content is null or the text
\* "null": JSON.parse answers null without throwing and null is returned
ExtractStructuredDataNull(r) ==
  /\ run[r].pc = "extract"
  /\ run' = [run EXCEPT ![r].dataIsNull = TRUE, ![r].stagesDone = 3,
                        ![r].pc = IF HasJobId(r) THEN "p70" ELSE "embed"]
  /\ UNCHANGED <<jobs, points, entityRows>>

\* const textChunks = chunkText(ocrResult.text): n chunks, n a function of
\* the document text; generateEmbeddings(textChunks): one embedding per
\* input, or rethrow
GenerateEmbeddings(r, ok, n) ==
  /\ run[r].pc = "embed"
  /\ run' = IF ok
             THEN [run EXCEPT ![r].nchunks = n, ![r].embeddings = n, ![r].pc = "store"]
             ELSE Throw(r)
  /\ UNCHANGED <<jobs, points, entityRows>>

\* storeInQdrant: PUT points `${documentId}_chunk_${index}` (upsert by id)
StoreInQdrant(r, ok) ==
  /\ run[r].pc = "store"
  /\ IF ok
       THEN LET ids == {<<DocumentId(r), i>> : i \in 0..(run[r].embeddings - 1)} IN
            /\ points' = {p \in points : p.id \notin ids}
                            \cup {[id |-> id, of |-> run[r].nchunks] : id \in ids}
            /\ run' = [run EXCEPT ![r].stagesDone = 4,
                                  ![r].pc = IF HasJobId(r) THEN "p90" ELSE "entities"]
       ELSE /\ points' = points
            /\ run' = Throw(r)
  /\ UNCHANGED <<jobs, entityRows>>

\* for (const entity of extractedData.entities) insert(...), one insert per
\* await, only when jobRecord?.document_id is set; then on to completion.
\* extractedData.entities of a null extractedData throws a TypeError.
StoreEntities(r) ==
  /\ run[r].pc = "entities"
  /\ IF run[r].dataIsNull
       THEN /\ entityRows' = entityRows
            /\ run' = Throw(r)
     ELSE IF run[r].existingJob /\ run[r].inserted < run[r].entities
       THEN /\ entityRows' = entityRows \cup
                 {[job |-> run[r].job_id, run |-> r, index |-> run[r].inserted]}
            /\ run' = [run EXCEPT ![r].inserted = @ + 1]
       ELSE /\ entityRows' = entityRows
            /\ run' = [run EXCEPT ![r].stagesDone = 5,
                                  ![r].pc = IF HasJobId(r) THEN "complete" ELSE "respond"]
  /\ UNCHANGED <<jobs, points>>

\* if (job_id) update({ status: 'completed', progress: 100, result: extractedData, ... })
CompleteJob(r) ==
  /\ run[r].pc = "complete"
  /\ JobWrite(r, [status |-> "completed", progress |-> 100, result |-> "data"],
              "completed", "respond")

ResponseKeys ==
  {"success", "processing_time_ms", "extracted_data", "ocr_result",
   "layout_result", "vector_storage", "job_id"}

\* return new Response(JSON.stringify(response), { status: 200 })
Respond(r) ==
  /\ run[r].pc = "respond"
  /\ run' = [run EXCEPT ![r] = Finished(@, Returned(200, ResponseKeys))]
  /\ UNCHANGED <<jobs, points, entityRows>>

\* catch (error) { const requestBody = await req.clone().json().catch(() => ({})); ... }
\* The body of req was read by req.json() at the top of the try block, and
\* Request.clone() of a request whose body has been read throws a TypeError
\* (Fetch standard, "clone(): if this is unusable, throw a TypeError").  The
\* throw happens inside the catch block, before the job update and before
\* the 500 response are reached: the handler's promise rejects.
CatchBlock(r) ==
  /\ run[r].pc = "catch"
  /\ IF run[r].bodyUsed
       THEN /\ jobs' = jobs
            /\ run' = [run EXCEPT ![r] = Finished(@, Threw)]
       ELSE /\ jobs' = UpdateJob(jobs, run[r].job_id,
                                 [status |-> "failed", error_message |-> run[r].error])
            /\ run' = [run EXCEPT ![r] =
                         Finished(@, Returned(500, {"success", "error", "timestamp"}))]
  /\ UNCHANGED <<points, entityRows>>

Next ==
  \/ UNCHANGED <<edpVars, uiVars>> /\ \E j \in JobIds : CreateProcessingJob(j)
  \/ UNCHANGED <<edpVars, uiVars>> /\ \E r \in Runs, req \in Requests : ServeEntry(r, req)
  \/ UNCHANGED <<edpVars, uiVars>> /\ \E r \in Runs : LookupJob(r)
  \/ UNCHANGED <<edpVars, uiVars>> /\ \E r \in Runs : SetRunning(r)
  \/ UNCHANGED <<edpVars, uiVars>> /\ \E r \in Runs : PerformOCR(r)
  \/ UNCHANGED <<edpVars, uiVars>> /\ \E r \in Runs : Progress30(r)
  \/ UNCHANGED <<edpVars, uiVars>> /\ \E r \in Runs : ParseLayout(r)
  \/ UNCHANGED <<edpVars, uiVars>> /\ \E r \in Runs : Progress50(r)
  \/ UNCHANGED <<edpVars, uiVars>> /\ \E r \in Runs, ok \in BOOLEAN, n \in 0..MaxEntities :
        ExtractStructuredData(r, ok, n)
  \/ UNCHANGED <<edpVars, uiVars>> /\ \E r \in Runs : ExtractStructuredDataNull(r)
  \/ UNCHANGED <<edpVars, uiVars>> /\ \E r \in Runs : Progress70(r)
  \/ UNCHANGED <<edpVars, uiVars>> /\ \E r \in Runs, ok \in BOOLEAN, n \in 0..MaxChunks :
        GenerateEmbeddings(r, ok, n)
  \/ UNCHANGED <<edpVars, uiVars>> /\ \E r \in Runs, ok \in BOOLEAN : StoreInQdrant(r, ok)
  \/ UNCHANGED <<edpVars, uiVars>> /\ \E r \in Runs : Progress90(r)
  \/ UNCHANGED <<edpVars, uiVars>> /\ \E r \in Runs : StoreEntities(r)
  \/ UNCHANGED <<edpVars, uiVars>> /\ \E r \in Runs : CompleteJob(r)
  \/ UNCHANGED <<edpVars, uiVars>> /\ \E r \in Runs : Respond(r)
  \/ UNCHANGED <<edpVars, uiVars>> /\ \E r \in Runs : CatchBlock(r)

Spec == Init /\ [][Next]_vars

\* The steps of run r that wait for nothing outside the function and its
\* database: once the awaited promise has settled the runtime runs the
\* continuation.  The calls to the chat, embedding and vector services are
\* plain fetch() calls without a timeout or an abort signal: nothing in the
\* code makes them answer, so they are not among these steps.
HandlerStep(r) ==
  /\ UNCHANGED <<edpVars, uiVars>>
  /\ \/ LookupJob(r) \/ SetRunning(r) \/ PerformOCR(r) \/ Progress30(r)
     \/ ParseLayout(r) \/ Progress50(r) \/ Progress70(r) \/ Progress90(r)
     \/ StoreEntities(r) \/ CompleteJob(r) \/ Respond(r) \/ CatchBlock(r)

SpecLive == Init /\ [][Next]_vars /\ \A r \in Runs : WF_vars(HandlerStep(r))

\* ------------------------------------------- enhanced-doc-processing handler
AcmeCo == <<"A", "c", "m", "e", " ", "C", "o">>
Globex == <<"G", "l", "o", "b", "e", "x">>
Lamps == <<"L", "a", "m", "p", "s">>
Blank == <<" ">>
ContainerABCD == <<"A", "B", "C", "D", "1", "2", "3", "4", "5", "6", "7">>
ContainerShort == <<"C", "N", "U", "2", "2", "5", "6", "9">>
Hs940540 == <<"9", "4", "0", "5", "4", "0">>

\* ExtractedData values the text-generation service may answer with
ExtractedSamples ==
  {NoExtracted,
   [supplier |-> AcmeCo, buyer |-> Globex, containerNo |-> ContainerABCD,
    hsCode |-> Hs940540],
   [supplier |-> AcmeCo, buyer |-> Globex, product |-> Lamps],
   [supplier |-> AcmeCo, buyer |-> Blank, product |-> Lamps,
    containerNo |-> ContainerShort]}

EdpRequests ==
  {[method |-> "OPTIONS", body |-> "object", content |-> FALSE]}
  \cup {[method |-> "POST", body |-> "malformed", content |-> FALSE]}
  \cup {[method |-> "POST", body |-> "object", content |-> c] : c \in BOOLEAN}

EdpRequestKind(req) ==
  IF req.method = "OPTIONS" THEN "options"
  ELSE IF req.body = "malformed" THEN "no_json_body"
  ELSE IF ~req.content THEN "no_content"
  ELSE "input"

\* the steps list as a response carries it
StepList(steps) == [i \in 1..Len(steps) |-> [id |-> StepIds[i], status |-> steps[i]]]
ErrorStepList == <<[id |-> "error", status |-> "error"]>>

EdpReturned(code, ks, steps, validation) ==
  [outcome |-> "returned", status |-> code, keys |-> ks, steps |-> steps,
   validation |-> validation, embeddings |-> NoEmbeddings]

\* embeddings[0]?.slice(0, 10) || []: the first ten dimensions of the first
\* chunk's vector, [] when no vector was computed
EmbeddingsPreview(n) ==
  IF n > 0 THEN [vectors |-> 1, dims |-> 10] ELSE NoEmbeddings

\* serve(): OPTIONS, req.json().catch(() => ({})), content check, initial steps
EdpServeEntry(r, req) ==
  /\ edp[r].pc = "idle"
  /\ LET base == [edp[r] EXCEPT !.request = EdpRequestKind(req)] IN
     edp' = [edp EXCEPT ![r] =
       IF req.method = "OPTIONS"
         THEN [base EXCEPT !.pc = "done",
                           !.resp = EdpReturned(200, {}, NoSteps, NoValidation)]
       ELSE IF req.body = "malformed" \/ ~req.content
         THEN [base EXCEPT !.pc = "done",
                           !.resp = EdpReturned(400, {"error"}, NoSteps, NoValidation)]
       ELSE [base EXCEPT !.pc = "ocr", !.steps = InitialSteps]]
  /\ UNCHANGED qdrant

\* result.steps[i] = { ...result.steps[i], status }
SetStep(r, i, status) == [edp[r].steps EXCEPT ![i] = status]

\* an OCR stage that leaves its step 'processing'
EdpPerformOCRLeavesStep(r) ==
  /\ edp[r].pc = "ocr"
  /\ edp' = [edp EXCEPT ![r].pc = "begin_layout"]
  /\ UNCHANGED qdrant

\* const ocrResult = await performOCR(content); steps[0] completed
EdpPerformOCR(r) ==
  /\ edp[r].pc = "ocr"
  /\ edp' = [edp EXCEPT ![r].steps = SetStep(r, 1, "completed"), ![r].pc = "begin_layout"]
  /\ UNCHANGED qdrant

\* result.steps[i] = { ..., status: 'processing' } ahead of stage i
EdpBeginStep(r, i, at, next) ==
  /\ edp[r].pc = at
  /\ edp' = [edp EXCEPT ![r].steps = SetStep(r, i, "processing"), ![r].pc = next]
  /\ UNCHANGED qdrant

EdpBeginLayout(r) == EdpBeginStep(r, 2, "begin_layout", "layout")
EdpBeginAI(r) == EdpBeginStep(r, 3, "begin_ai", "ai")
EdpBeginVector(r) == EdpBeginStep(r, 4, "begin_vector", "embed")
EdpBeginValidation(r) == EdpBeginStep(r, 5, "begin_validation", "validation")

\* const layoutResult = await parseLayout(ocrResult); steps[1] completed
EdpParseLayout(r) ==
  /\ edp[r].pc = "layout"
  /\ edp' = [edp EXCEPT ![r].steps = SetStep(r, 2, "completed"), ![r].pc = "begin_ai"]
  /\ UNCHANGED qdrant

\* performAIAnalysis: fetch throws or !response.ok -> throw (to the handler's
\* catch); otherwise the parsed extracted data; steps[2] completed
EdpPerformAIAnalysis(r, ok, e) ==
  /\ edp[r].pc = "ai"
  /\ edp' = IF ok
             THEN [edp EXCEPT ![r].extracted = e,
                              ![r].steps = SetStep(r, 3, "completed"),
                              ![r].pc = "begin_vector"]
             ELSE [edp EXCEPT ![r].error = "msg", ![r].pc = "catch"]
  /\ UNCHANGED qdrant

\* generateEmbeddingsForChunks rethrowing its error instead of returning []
EdpGenerateEmbeddingsRethrows(r, ok, n) ==
  /\ edp[r].pc = "embed"
  /\ edp' = IF ok
             THEN [edp EXCEPT ![r].nchunks = n, ![r].embeddings = n, ![r].pc = "check"]
             ELSE [edp EXCEPT ![r].nchunks = n, ![r].embedFailed = TRUE,
                              ![r].error = "msg", ![r].pc = "catch"]
  /\ UNCHANGED qdrant

\* chunks = chunkText(layoutResult.text) (n chunks);
\* generateEmbeddingsForChunks(chunks): one vector per chunk, [] on any error
EdpGenerateEmbeddings(r, ok, n) ==
  /\ edp[r].pc = "embed"
  /\ edp' = [edp EXCEPT ![r].nchunks = n,
                        ![r].embeddings = IF ok THEN n ELSE 0,
                        ![r].embedFailed = ~ok,
                        ![r].pc = "check"]
  /\ UNCHANGED qdrant

\* storeChunksInVectorDB returns false without an upsert
StoreAborted(r) ==
  [edp EXCEPT ![r].collectionReady = FALSE, ![r].vectorStored = FALSE,
              ![r].pc = "end_vector"]

\* an existence check whose failure does not stop the upsert
EdpCheckCollectionIgnoresFailure(r, answered) ==
  /\ edp[r].pc = "check"
  /\ edp' = IF ~answered THEN [edp EXCEPT ![r].pc = "upsert"]
             ELSE IF qdrant.collection
               THEN [edp EXCEPT ![r].collectionReady = TRUE, ![r].pc = "upsert"]
             ELSE [edp EXCEPT ![r].pc = "create"]
  /\ UNCHANGED qdrant

\* ensureQdrantCollection, existence check: GET collections/documents.
\* answered = FALSE: fetch throws or the status is neither 404 nor 2xx.
EdpCheckCollection(r, answered) ==
  /\ edp[r].pc = "check"
  /\ edp' = IF ~answered THEN StoreAborted(r)
             ELSE IF qdrant.collection
               THEN [edp EXCEPT ![r].collectionReady = TRUE, ![r].pc = "upsert"]
             ELSE [edp EXCEPT ![r].pc = "create"]
  /\ UNCHANGED qdrant

\* ensureQdrantCollection, after a 404: PUT collections/documents
\* { size: 1536, distance: "Cosine" }; return createResponse.ok.
\* The server refuses to create a collection that exists.
EdpCreateCollection(r, answered) ==
  /\ edp[r].pc = "create"
  /\ IF answered /\ ~qdrant.collection
       THEN /\ qdrant' = [qdrant EXCEPT !.collection = TRUE]
            /\ edp' = [edp EXCEPT ![r].collectionReady = TRUE, ![r].pc = "upsert"]
       ELSE /\ qdrant' = qdrant
            /\ edp' = StoreAborted(r)

\* storeChunksInVectorDB: points = chunks.map(... vector: embeddings[index] || [] ...),
\* PUT collections/documents/points; return response.ok, false when fetch throws
EdpUpsertPoints(r, ok) ==
  /\ edp[r].pc = "upsert"
  /\ qdrant' = [qdrant EXCEPT !.upserts =
                  @ \cup {[run |-> r, points |-> edp[r].nchunks,
                           vectors |-> edp[r].embeddings]}]
  /\ edp' = [edp EXCEPT ![r].vectorStored = ok, ![r].pc = "end_vector"]

\* result.embeddings = ...; steps[3] = vectorStored ? 'completed' : 'error'
EdpEndVector(r) ==
  /\ edp[r].pc = "end_vector"
  /\ edp' = [edp EXCEPT
               ![r].steps = SetStep(r, 4, IF edp[r].vectorStored THEN "completed" ELSE "error"),
               ![r].pc = "begin_validation"]
  /\ UNCHANGED qdrant

\* a validation step that throws when the document does not pass
EdpValidateThrows(r) ==
  /\ edp[r].pc = "validation"
  /\ edp' = IF validateDocument(edp[r].extracted).passed
             THEN [edp EXCEPT ![r].validation = validateDocument(edp[r].extracted),
                              ![r].steps = SetStep(r, 5, "completed"),
                              ![r].pc = "respond"]
             ELSE [edp EXCEPT ![r].error = "msg", ![r].pc = "catch"]
  /\ UNCHANGED qdrant

\* const validation = validateDocument(extracted); steps[4] completed
EdpValidate(r) ==
  /\ edp[r].pc = "validation"
  /\ edp' = [edp EXCEPT ![r].validation = validateDocument(edp[r].extracted),
                        ![r].steps = SetStep(r, 5, "completed"),
                        ![r].pc = "respond"]
  /\ UNCHANGED qdrant

EdpResultKeys ==
  {"steps", "ocrResult", "layoutResult", "extracted", "summary", "embeddings",
   "validation"}

\* return new Response(JSON.stringify(result))  (status 200)
EdpRespond(r) ==
  /\ edp[r].pc = "respond"
  /\ edp' = [edp EXCEPT ![r].pc = "done",
               ![r].resp = [EdpReturned(200, EdpResultKeys, StepList(edp[r].steps),
                                        edp[r].validation)
                              EXCEPT !.embeddings = EmbeddingsPreview(edp[r].embeddings)]]
  /\ UNCHANGED qdrant

\* catch (error): status 500, { error, steps: [{ id: 'error', status: 'error' }] }
EdpCatchBlock(r) ==
  /\ edp[r].pc = "catch"
  /\ edp' = [edp EXCEPT ![r].pc = "done",
               ![r].resp = EdpReturned(500, {"error", "steps"}, ErrorStepList,
                                       NoValidation)]
  /\ UNCHANGED qdrant

\* ------------------------------------------------ Index.runAnalysis (client)
\* runAnalysis up to its await: setSteps([...mockProcessingSteps]) and
\* supabase.functions.invoke('enhanced-doc-processing', { body: { content } })
\* The button is disabled while pasteText is blank, so the request carries
\* content; it stays enabled while a call is in flight.  The calls are
\* numbered in the order they are made.
RunAnalysis(r) ==
  /\ ui.invoked[r] = "none"
  /\ \A q \in EdpRuns : q < r => ui.invoked[q] # "none"
  /\ ui' = [IdleUi EXCEPT !.invoked = [ui.invoked EXCEPT ![r] = "awaiting"]]
  /\ EdpServeEntry(r, [method |-> "POST", body |-> "object", content |-> TRUE])
  /\ UNCHANGED call

\* runAnalysis after its await.  invoke() answers { data } for a 2xx response
\* and { error } for any other; `if (error) throw error` leads to the catch
\* block, which marks every step 'error'; otherwise setSteps(data.steps),
\* setExtractedData(data.extracted), setValidation(data.validation) and
\* setEmbeddings(data.embeddings).
RunAnalysisSettled(r) ==
  /\ ui.invoked[r] = "awaiting"
  /\ edp[r].pc = "done"
  /\ ui' = IF edp[r].resp.status = 200
             THEN [steps |-> edp[r].resp.steps,
                   extractedData |-> StateOf(edp[r].extracted),
                   validation |-> StateOf(edp[r].resp.validation),
                   embeddings |-> edp[r].resp.embeddings,
                   invoked |-> [ui.invoked EXCEPT ![r] = "settled"]]
             ELSE [ui EXCEPT !.steps = [i \in 1..Len(ui.steps) |->
                                          [ui.steps[i] EXCEPT !.status = "error"]],
                             !.invoked[r] = "settled"]
  /\ UNCHANGED <<edp, qdrant, call>>

NextEDP ==
  \/ UNCHANGED <<pdVars, uiVars>> /\ \E r \in EdpRuns, req \in EdpRequests : EdpServeEntry(r, req)
  \/ UNCHANGED <<pdVars, uiVars>> /\ \E r \in EdpRuns : EdpPerformOCR(r)
  \/ UNCHANGED <<pdVars, uiVars>> /\ \E r \in EdpRuns : EdpBeginLayout(r)
  \/ UNCHANGED <<pdVars, uiVars>> /\ \E r \in EdpRuns : EdpParseLayout(r)
  \/ UNCHANGED <<pdVars, uiVars>> /\ \E r \in EdpRuns : EdpBeginAI(r)
  \/ UNCHANGED <<pdVars, uiVars>> /\ \E r \in EdpRuns, ok \in BOOLEAN, e \in ExtractedSamples : EdpPerformAIAnalysis(r, ok, e)
  \/ UNCHANGED <<pdVars, uiVars>> /\ \E r \in EdpRuns : EdpBeginVector(r)
  \/ UNCHANGED <<pdVars, uiVars>> /\ \E r \in EdpRuns, ok \in BOOLEAN, n \in 0..MaxChunks : EdpGenerateEmbeddings(r, ok, n)
  \/ UNCHANGED <<pdVars, uiVars>> /\ \E r \in EdpRuns, answered \in BOOLEAN : EdpCheckCollection(r, answered)
  \/ UNCHANGED <<pdVars, uiVars>> /\ \E r \in EdpRuns, answered \in BOOLEAN : EdpCreateCollection(r, answered)
  \/ UNCHANGED <<pdVars, uiVars>> /\ \E r \in EdpRuns, ok \in BOOLEAN : EdpUpsertPoints(r, ok)
  \/ UNCHANGED <<pdVars, uiVars>> /\ \E r \in EdpRuns : EdpEndVector(r)
  \/ UNCHANGED <<pdVars, uiVars>> /\ \E r \in EdpRuns : EdpBeginValidation(r)
  \/ UNCHANGED <<pdVars, uiVars>> /\ \E r \in EdpRuns : EdpValidate(r)
  \/ UNCHANGED <<pdVars, uiVars>> /\ \E r \in EdpRuns : EdpRespond(r)
  \/ UNCHANGED <<pdVars, uiVars>> /\ \E r \in EdpRuns : EdpCatchBlock(r)
  \/ UNCHANGED pdVars /\ \E r \in EdpRuns : RunAnalysis(r)
  \/ UNCHANGED pdVars /\ \E r \in EdpRuns : RunAnalysisSettled(r)

SpecEDP == InitEDP /\ [][NextEDP]_vars

\* ------------------------------------------ validateDocument (earlier variant)
\* /^(INV|INVOICE)-?\d+$/i
InvoiceNumberOkEarlier(s) ==
  \E p \in InvoicePrefixes \ {<<>>, <<"#">>}, dash \in {<<>>, <<"-">>} :
    /\ HasAtCI(s, 1, p \o dash)
    /\ LET digits == Drop(s, Len(p) + Len(dash)) IN
       Len(digits) >= 1 /\ AllDigits(digits)

\* /(\d+(?:\.\d+)?)\s*(kg|lbs?)/i matches somewhere: \d+ may start at the
\* last digit in front of the unit and the fraction is optional, so a match
\* exists exactly when a digit, then whitespace only, then kg or lb occurs
WeightMatchEarlier(s) ==
  \E q \in 1..Len(s) :
    /\ s[q] \in Digits
    /\ LET unitPos == q + 1 + SpaceRun(s, q + 1) IN
       HasAtCI(s, unitPos, <<"k", "g">>) \/ HasAtCI(s, unitPos, <<"l", "b">>)

\* validateDocument of the earlier enhanced pipeline: a required field is
\* missing when it is falsy; the format rules test the value as it is
validateDocumentEarlier(extracted) ==
  LET missing == SelectSeq(requiredFields, LAMBDA f : ~Truthy(extracted, f))
      errors == [i \in 1..Len(missing) |-> <<"Missing required field: ", missing[i]>>]
      warnings ==
        Warn(Truthy(extracted, "invoiceNumber")
               /\ ~InvoiceNumberOkEarlier(extracted["invoiceNumber"]),
             "Invoice number format may be invalid")
        \o Warn(Truthy(extracted, "hsCode")
                  /\ ~(Len(extracted["hsCode"]) \in 6..10 /\ AllDigits(extracted["hsCode"])),
                "HS Code format may be invalid")
        \o Warn(Truthy(extracted, "containerNo")
                  /\ ~(/\ Len(extracted["containerNo"]) = 11
                       /\ \A i \in 1..4 : IsLetter(extracted["containerNo"][i])
                       /\ \A i \in 5..11 : extracted["containerNo"][i] \in Digits),
                "Container number format may be invalid")
        \o Warn(Truthy(extracted, "weight") /\ ~WeightMatchEarlier(extracted["weight"]),
                "Weight format unclear")
  IN [passed |-> Len(errors) = 0, errors |-> errors, warnings |-> warnings]

\* ----------------------------------------------- the validator, applied
ContainerCNU7 == <<"C", "N", "U", "2", "2", "5", "6", "9", "8", "7">>
\* a field the extraction left out
Absent == <<"undefined">>

\* the values a field of the ExtractedData takes in the inputs below
FieldValues ==
  [supplier |-> {Absent, <<>>, AcmeCo},
   buyer |-> {Absent, Blank, Globex},
   product |-> {Absent, Lamps},
   containerNo |-> {Absent, ContainerABCD, ContainerCNU7, ContainerShort},
   hsCode |-> {Absent, Hs940540, <<"9", "4">>},
   weight |-> {Absent, <<"5", " ", "k", "g">>, <<"0", " ", "k", "g">>, <<"h", "e", "a", "v", "y">>},
   invoiceNumber |-> {Absent, <<"I", "N", "V", "-", "1", "2", "3">>, <<"1", "2", "3">>}]

\* the object without the fields that have no value
Present(all) == [f \in {g \in DOMAIN all : all[g] # Absent} |-> all[f]]

\* the ExtractedData objects: every choice of a value or of no value per field
ValidatorInputs ==
  {Present([supplier |-> su, buyer |-> bu, product |-> pr, containerNo |-> co,
            hsCode |-> hs, weight |-> we, invoiceNumber |-> inv]) :
     su \in FieldValues.supplier, bu \in FieldValues.buyer, pr \in FieldValues.product,
     co \in FieldValues.containerNo, hs \in FieldValues.hsCode,
     we \in FieldValues.weight, inv \in FieldValues.invoiceNumber}

\* everything but the function application is at rest
AtRest ==
  /\ jobs = [j \in JobIds |-> NoRow]
  /\ run = [r \in Runs |-> IdleRun]
  /\ points = {}
  /\ entityRows = {}
  /\ edp = [r \in EdpRuns |-> IdleEdp]
  /\ qdrant = [collection |-> FALSE, upserts |-> {}]
  /\ ui = IdleUi

InitValidate ==
  /\ AtRest
  /\ \E e \in ValidatorInputs : call = [fn |-> "none", input |-> e, output |-> NoValidation]

\* const validation = validateDocument(extracted)
ApplyValidateDocument ==
  /\ call.fn = "none"
  /\ call' = [call EXCEPT !.fn = "validateDocument",
                          !.output = validateDocument(call.input)]

ApplyValidateDocumentEarlier ==
  /\ call.fn = "none"
  /\ call' = [call EXCEPT !.fn = "validateDocumentEarlier",
                          !.output = validateDocumentEarlier(call.input)]

NextValidate ==
  \/ UNCHANGED <<pdVars, edpVars, ui>> /\ ApplyValidateDocument
  \/ UNCHANGED <<pdVars, edpVars, ui>> /\ ApplyValidateDocumentEarlier

SpecValidate == InitValidate /\ [][NextValidate]_vars

\* ------------------------------------------------------------ parseLayout
\* String.prototype.split on a one-character separator out of seps: the
\* pieces of s between the separators, empty pieces included
RECURSIVE Split(_, _)
Split(s, seps) ==
  IF \A i \in 1..Len(s) : s[i] \notin seps THEN <<s>>
  ELSE LET i == CHOOSE k \in 1..Len(s) : s[k] \in seps /\ \A m \in 1..(k - 1) : s[m] \notin seps
       IN <<SubSeq(s, 1, i - 1)>> \o Split(Drop(s, i), seps)

\* Array.prototype.join
RECURSIVE JoinWith(_, _)
JoinWith(parts, sep) ==
  IF parts = <<>> THEN <<>>
  ELSE IF Len(parts) = 1 THEN parts[1]
  ELSE parts[1] \o sep \o JoinWith(Tail(parts), sep)

Includes(line, c) == \E i \in 1..Len(line) : line[i] = c

\* a key-value rule that wants a key of three characters or more
IsKeyValueLineLongKey(line) ==
  /\ Includes(line, ":") /\ ~Includes(line, "|")
  /\ Len(Trim(Split(line, {":"})[1])) >= 3

\* if (line.includes(':') && !line.includes('|'))
IsKeyValueLine(line) == Includes(line, ":") /\ ~Includes(line, "|")

\* parseLayout: key-value pairs, table rows, one table when there are two
\* rows or more, and the three sections
parseLayout(ocrResult) ==
  LET content == ocrResult.text
      lines == SelectSeq(Split(content, {"\n"}), LAMBDA l : Trim(l) # <<>>)
      kvLines == SelectSeq(lines, IsKeyValueLine)
      keyValuePairs ==
        [i \in 1..Len(kvLines) |->
           LET parts == Split(kvLines[i], {":"}) IN
           [key |-> Trim(parts[1]), value |-> Trim(JoinWith(Tail(parts), <<":">>))]]
      rowLines == SelectSeq(lines, LAMBDA l : ~IsKeyValueLine(l) /\ Includes(l, "|"))
      tableData ==
        [i \in 1..Len(rowLines) |->
           LET cells == Split(rowLines[i], {"|"}) IN
           [k \in 1..Len(cells) |-> Trim(cells[k])]]
      tables == IF Len(tableData) > 1
                  THEN <<[headers |-> tableData[1], rows |-> Tail(tableData)]>>
                  ELSE <<>>
      sections ==
        <<[type |-> "header",
           content |-> JoinWith(SubSeq(lines, 1, IF Len(lines) < 2 THEN Len(lines) ELSE 2),
                                <<" ">>)],
          [type |-> "body", content |-> content],
          [type |-> "footer", content |-> <<"Document processed">>]>>
  IN [text |-> content,
      structure |-> [sections |-> sections, tables |-> tables,
                     keyValuePairs |-> keyValuePairs]]

MaxLines == 4       \* lines of a document text

SupplierLine ==
  <<"S", "u", "p", "p", "l", "i", "e", "r", ":", " ", "A", "c", "m", "e",
    " ", "C", "o">>
BuyerLine ==
  <<"B", "u", "y", "e", "r", ":", " ", "G", "l", "o", "b", "e", "x">>
ContainerLine ==
  <<"C", "o", "n", "t", "a", "i", "n", "e", "r", ":", " ", "A", "B", "C",
    "D", "1", "2", "3", "4", "5", "6", "7">>
HsLine ==
  <<"H", "S", ":", " ", "9", "4", "0", "5", "4", "0">>

\* the lines a document text is made of: the four lines above, a table row,
\* a blank line and a line with two colons
LayoutLines ==
  {SupplierLine, BuyerLine, ContainerLine, HsLine,
   <<"Q", "t", "y", " ", "|", " ", "2">>, <<" ", " ">>,
   <<"T", "i", "m", "e", ":", " ", "1", "0", ":", "3", "0">>}

\* the sequences of at most n members of S
RECURSIVE SeqsUpTo(_, _)
SeqsUpTo(S, n) ==
  IF n = 0 THEN {<<>>}
  ELSE SeqsUpTo(S, n - 1) \cup {Append(ls, l) : ls \in SeqsUpTo(S, n - 1), l \in S}

\* the document texts: up to MaxLines lines, joined by line breaks
InitLayout ==
  /\ AtRest
  /\ \E ls \in SeqsUpTo(LayoutLines, MaxLines) :
       call = [fn |-> "none", input |-> JoinWith(ls, <<"\n">>), output |-> <<>>]

\* const ocrResult = await performOCR(content)  (text: content);
\* const layoutResult = await parseLayout(ocrResult)
ApplyParseLayout ==
  /\ call.fn = "none"
  /\ call' = [call EXCEPT !.fn = "parseLayout",
                          !.output = parseLayout([text |-> call.input])]

NextLayout ==
  \/ UNCHANGED <<pdVars, edpVars, ui>> /\ ApplyParseLayout

SpecLayout == InitLayout /\ [][NextLayout]_vars

\* ------------------------------------------------- chunkText (sentence-based)
\* text.split(/[.!?]+/).filter(s => s.trim()): splitting on a run of
\* terminators differs from splitting on each terminator by empty pieces
\* only, and the filter removes the empty pieces
Sentences(text) == SelectSeq(Split(text, {".", "!", "?"}), LAMBDA st : Trim(st) # <<>>)

\* a loop body that starts the new chunk empty after a flush
ChunkStepDropsSentence(acc, sentence, maxChunkSize) ==
  IF Len(acc.currentChunk \o sentence) > maxChunkSize /\ acc.currentChunk # <<>>
    THEN [chunks |-> Append(acc.chunks, Trim(acc.currentChunk)),
          currentChunk |-> <<>>]
    ELSE [chunks |-> acc.chunks,
          currentChunk |-> acc.currentChunk
                             \o (IF acc.currentChunk # <<>> THEN <<".", " ">> ELSE <<>>)
                             \o Trim(sentence)]

\* the body of `for (const sentence of sentences)`
ChunkStep(acc, sentence, maxChunkSize) ==
  IF Len(acc.currentChunk \o sentence) > maxChunkSize /\ acc.currentChunk # <<>>
    THEN [chunks |-> Append(acc.chunks, Trim(acc.currentChunk)),
          currentChunk |-> Trim(sentence)]
    ELSE [chunks |-> acc.chunks,
          currentChunk |-> acc.currentChunk
                             \o (IF acc.currentChunk # <<>> THEN <<".", " ">> ELSE <<>>)
                             \o Trim(sentence)]

RECURSIVE ChunkLoop(_, _, _)
ChunkLoop(sentences, acc, maxChunkSize) ==
  IF sentences = <<>> THEN acc
  ELSE ChunkLoop(Tail(sentences), ChunkStep(acc, Head(sentences), maxChunkSize), maxChunkSize)

\* the array `chunks` after the final flush, before the length filter
ChunksBeforeFilter(text, maxChunkSize) ==
  LET acc == ChunkLoop(Sentences(text), [chunks |-> <<>>, currentChunk |-> <<>>],
                       maxChunkSize)
  IN IF acc.currentChunk # <<>> THEN Append(acc.chunks, Trim(acc.currentChunk))
     ELSE acc.chunks

\* return chunks.filter(chunk => chunk.length > 20)
chunkText(text, maxChunkSize) ==
  SelectSeq(ChunksBeforeFilter(text, maxChunkSize), LAMBDA chunk : Len(chunk) > 20)

MaxPieces == 3      \* pieces of a text given to the chunker

\* the pieces a text is made of: sentences of 3, 10, 10 (after a blank), 15,
\* 20 and 30 characters with their terminator, a blank and a run of terminators
ChunkPieces ==
  {<<"a", "a", "a", ".">>,
   [i \in 1..10 |-> "b"] \o <<".">>,
   <<" ">> \o [i \in 1..10 |-> "c"] \o <<".">>,
   [i \in 1..15 |-> "d"] \o <<".">>,
   [i \in 1..20 |-> "e"] \o <<".">>,
   [i \in 1..30 |-> "f"] \o <<"!">>,
   <<" ">>,
   <<"?", "!">>}

\* the calls: a text of up to MaxPieces pieces and a max chunk size (500 is
\* the default and what the handler uses)
InitChunk ==
  /\ AtRest
  /\ \E ps \in SeqsUpTo(ChunkPieces, MaxPieces), m \in {12, 25, 500} :
       call = [fn |-> "none",
               input |-> [text |-> JoinWith(ps, <<>>), maxChunkSize |-> m],
               output |-> <<>>]

\* const chunks = chunkText(layoutResult.text)
ApplyChunkText ==
  /\ call.fn = "none"
  /\ call' = [call EXCEPT !.fn = "chunkText",
                          !.output = chunkText(call.input.text, call.input.maxChunkSize)]

NextChunk ==
  \/ UNCHANGED <<pdVars, edpVars, ui>> /\ ApplyChunkText

SpecChunk == InitChunk /\ [][NextChunk]_vars

\* ------------------------------------------------ parsing the model's answer
\* The content of the chat completion as a sequence of tokens: "{", "}", ",",
\* "E" (a member "extracted": {"supplier": ...}), "S" (a member
\* "summary": "..."), "x" (text that is not JSON).

\* JSON.parse: the text must be one object, its members separated by commas;
\* the value is given by the keys it has.  ok = FALSE: JSON.parse throws.
JSONParse(tokens) ==
  LET n == Len(tokens)
      inner == SubSeq(tokens, 2, n - 1)
      ok == /\ n >= 2
            /\ tokens[1] = "{"
            /\ tokens[n] = "}"
            /\ \/ inner = <<>>
               \/ /\ Len(inner) % 2 = 1
                  /\ \A i \in 1..Len(inner) :
                       IF i % 2 = 1 THEN inner[i] \in {"E", "S"} ELSE inner[i] = ","
  IN [ok |-> ok,
      keys |-> IF ok THEN {IF inner[i] = "E" THEN "extracted" ELSE "summary" :
                             i \in {k \in 1..Len(inner) : k % 2 = 1}}
               ELSE {}]

\* contentText.match(/\{[\s\S]*\}/): from the first "{" to the last "}"
BraceMatch(tokens) ==
  LET opens == {i \in 1..Len(tokens) : tokens[i] = "{"}
      closes == {i \in 1..Len(tokens) : tokens[i] = "}"}
      first == CHOOSE i \in opens : \A k \in opens : i <= k
      last == CHOOSE i \in closes : \A k \in closes : i >= k
  IN IF opens # {} /\ closes # {} /\ first < last
       THEN [matched |-> TRUE, text |-> SubSeq(tokens, first, last)]
       ELSE [matched |-> FALSE, text |-> <<>>]

\* performAIAnalysis from `try { const parsed = JSON.parse(contentText)` on:
\* the ExtractedData (its fields) and the summary it returns
performAIAnalysisParse(contentText) ==
  LET ExtractedFields == {"supplier"}  \* the fields under "extracted" in the answer
      direct == JSONParse(contentText)
      match == BraceMatch(contentText)
      salvaged == JSONParse(match.text)
  IN IF direct.ok
       THEN [extracted |-> IF "extracted" \in direct.keys THEN ExtractedFields ELSE {},
             summary |-> IF "summary" \in direct.keys THEN "summary of the model"
                         ELSE "No summary available"]
     ELSE IF match.matched /\ salvaged.ok
       THEN [extracted |-> IF "extracted" \in salvaged.keys THEN ExtractedFields
                           ELSE salvaged.keys,
             summary |-> IF "summary" \in salvaged.keys THEN "summary of the model"
                         ELSE "Document processed successfully"]
     ELSE IF match.matched
       THEN [extracted |-> {}, summary |-> "Failed to parse analysis results"]
     ELSE [extracted |-> {}, summary |-> "No analysis results available"]

\* extractStructuredData from `try { return JSON.parse(extractedText)` on:
\* the parsed object, or the fixed fallback object of the catch block
extractStructuredDataParse(extractedText) ==
  LET direct == JSONParse(extractedText) IN
  IF direct.ok
    THEN [extracted |-> direct.keys, summary |-> "none"]
    ELSE [extracted |-> {"supplier", "buyer", "invoice_number", "invoice_date",
                         "total_amount", "findings", "entities"},
          summary |-> "none"]

\* analyze-docs from `let extracted = {}; try { extracted = JSON.parse(contentText)`
\* on: the parsed object, the salvaged object, or {}
analyzeDocsParse(contentText) ==
  LET direct == JSONParse(contentText)
      match == BraceMatch(contentText)
      salvaged == JSONParse(match.text)
  IN [extracted |-> IF direct.ok THEN direct.keys
                    ELSE IF match.matched /\ salvaged.ok THEN salvaged.keys
                    ELSE {},
      summary |-> "none"]

MaxTokens == 5      \* tokens of the model's answer

InitParse ==
  /\ AtRest
  /\ \E t \in SeqsUpTo({"{", "}", ",", "E", "S", "x"}, MaxTokens) : call = [fn |-> "none", input |-> t, output |-> <<>>]

\* enhanced-doc-processing: performAIAnalysis after a 2xx answer
ApplyPerformAIAnalysis ==
  /\ call.fn = "none"
  /\ call' = [call EXCEPT !.fn = "performAIAnalysis",
                          !.output = performAIAnalysisParse(call.input)]

\* process-documents: extractStructuredData after a 2xx answer
ApplyExtractStructuredData ==
  /\ call.fn = "none"
  /\ call' = [call EXCEPT !.fn = "extractStructuredData",
                          !.output = extractStructuredDataParse(call.input)]

\* analyze-docs: the handler after a 2xx answer
ApplyAnalyzeDocs ==
  /\ call.fn = "none"
  /\ call' = [call EXCEPT !.fn = "analyzeDocs",
                          !.output = analyzeDocsParse(call.input)]

NextParse ==
  \/ UNCHANGED <<pdVars, edpVars, ui>> /\ ApplyAnalyzeDocs
  \/ UNCHANGED <<pdVars, edpVars, ui>> /\ ApplyPerformAIAnalysis
  \/ UNCHANGED <<pdVars, edpVars, ui>> /\ ApplyExtractStructuredData

SpecParse == InitParse /\ [][NextParse]_vars

\* ===================================================================== claims
\* --------------------------------------------------------------------- C1
\* C1: when the process-documents handler returns control for a request
\* that carries the id of an existing job, that job's status is not
\* 'running'.
C1_NotRunningOnReturn ==
  [][\A r \in Runs :
       (run[r].pc # "done" /\ run'[r].pc = "done" /\ run[r].existingJob)
         => jobs'[run[r].job_id].status # "running"]_vars

\* --------------------------------------------------------------------- C2
\* C2: the progress value of a job record never decreases, whatever
\* invocations carry its id.
C2_ProgressNeverDecreases ==
  [][\A j \in JobIds : jobs'[j].progress >= jobs[j].progress]_vars

\* --------------------------------------------------------------------- C3
\* C3: once a job record has status 'completed' or 'failed', no step of any
\* invocation changes its status, progress or result.
C3_TerminalStatusIsFinal ==
  [][\A j \in JobIds :
       jobs[j].status \in {"completed", "failed"}
         => /\ jobs'[j].status = jobs[j].status
            /\ jobs'[j].progress = jobs[j].progress
            /\ jobs'[j].result = jobs[j].result]_vars

\* --------------------------------------------------------------------- C4
\* the checkpoints of a run, each with the number of stages that have
\* finished when it is written
Checkpoints ==
  <<[progress |-> 10, status |-> "running", stagesDone |-> 0],
    [progress |-> 30, status |-> "same", stagesDone |-> 1],
    [progress |-> 50, status |-> "same", stagesDone |-> 2],
    [progress |-> 70, status |-> "same", stagesDone |-> 3],
    [progress |-> 90, status |-> "same", stagesDone |-> 4],
    [progress |-> 100, status |-> "completed", stagesDone |-> 5]>>

\* C4: a run for an existing job writes the progress values 10, 30, 50, 70,
\* 90, 100 in that order, checkpoint k+1 only after stage k has finished, and
\* a run in which no stage fails ends with all six written, the last one
\* setting progress 100 together with status 'completed'.
C4_CheckpointsInOrder ==
  \A r \in Runs :
    run[r].existingJob =>
      /\ Len(run[r].written) <= Len(Checkpoints)
      /\ run[r].written = SubSeq(Checkpoints, 1, Len(run[r].written))
      /\ (run[r].pc \in {"respond", "done"} /\ run[r].error = "null")
           => run[r].written = Checkpoints

C4_Witness ==
  \E r \in Runs :
    /\ run[r].existingJob
    /\ run[r].pc = "done"
    /\ run[r].resp.status = 200
    /\ Len(run[r].written) = 6
    /\ jobs[run[r].job_id].status = "completed"
    /\ jobs[run[r].job_id].progress = 100

\* --------------------------------------------------------------------- C5
\* C5: when a stage raises a fatal error in a run for an existing job, the
\* handler's failure update sets status 'failed' and the error message and
\* leaves the job's progress and result as they were.
C5_FailureUpdateFrame ==
  [][\A r \in Runs :
       (run[r].pc = "catch" /\ run'[r].pc = "done" /\ run[r].existingJob)
         => /\ jobs'[run[r].job_id].status = "failed"
            /\ jobs'[run[r].job_id].error_message = run[r].error
            /\ jobs'[run[r].job_id].progress = jobs[run[r].job_id].progress
            /\ jobs'[run[r].job_id].result = jobs[run[r].job_id].result]_vars

\* --------------------------------------------------------------------- C6
\* C6: when a stage's external service fails in a process-documents run, no
\* later stage of the run is executed, the run ends as a failure (a non-2xx
\* response) and the job is marked failed when the request carried the id of
\* an existing job.
C6_StageErrorEndsRunAsFailure ==
  [][\A r \in Runs :
       (run[r].pc = "catch" /\ run[r].stagesDone > 0)
         => /\ run'[r].stagesDone = run[r].stagesDone
            /\ (run'[r].pc = "done" =>
                  /\ ~(run'[r].resp.outcome = "returned" /\ run'[r].resp.status < 300)
                  /\ (run[r].existingJob =>
                        jobs'[run[r].job_id].status = "failed"))]_vars

C8_NoContentIs400 ==
  \A r \in Runs :
    (run[r].pc = "done" /\ run[r].request \in {"no_content", "no_json_body"}) =>
      /\ run[r].resp.outcome = "returned"
      /\ run[r].resp.status = 400
      /\ run[r].stagesDone = 0
      /\ run[r].written = <<>>

\* --------------------------------------------------------------------- C9
\* C9: a run whose extraction stage succeeded ends with the validation step
\* 'completed' and a success response that carries validateDocument's
\* result for the extracted data, whether or not the validation passed.
C9_ValidationNeverFailsRun ==
  \A r \in EdpRuns :
    (edp[r].pc = "done" /\ edp[r].steps # NoSteps /\ edp[r].steps[3] = "completed") =>
      /\ edp[r].resp.outcome = "returned"
      /\ edp[r].resp.status = 200
      /\ Len(edp[r].resp.steps) = 5
      /\ edp[r].resp.steps[5] = [id |-> "validation", status |-> "completed"]
      /\ "validation" \in edp[r].resp.keys
      /\ edp[r].resp.validation = validateDocument(edp[r].extracted)

C9_Witness ==
  \E r \in EdpRuns :
    /\ edp[r].pc = "done"
    /\ edp[r].resp.status = 200
    /\ ~edp[r].resp.validation.passed
    /\ Len(edp[r].resp.validation.errors) = 1
    /\ Len(edp[r].resp.validation.warnings) = 1

\* -------------------------------------------------------------------- C10
\* C10: at every moment of a run at most one step is 'processing', and while
\* step i is processing every earlier step is 'completed' or 'error' and
\* every later step is 'pending'.
C10_StepsStrictlySequential ==
  \A r \in EdpRuns :
    edp[r].steps # NoSteps =>
      /\ Cardinality({i \in 1..5 : edp[r].steps[i] = "processing"}) <= 1
      /\ \A i \in 1..5 :
           edp[r].steps[i] = "processing" =>
             /\ \A k \in 1..(i - 1) : edp[r].steps[k] \in {"completed", "error"}
             /\ \A k \in (i + 1)..5 : edp[r].steps[k] = "pending"

C10_Witness ==
  \E r \in EdpRuns :
    /\ edp[r].steps # NoSteps
    /\ edp[r].steps[5] = "processing"
    /\ edp[r].steps[4] = "error"

\* -------------------------------------------------------------------- C11
\* C11: every response of the enhanced-doc-processing handler that carries a
\* steps list, the response of a failed run included, lists exactly the five
\* steps ocr, layout, ai, vector, validation in that order, each of them
\* 'completed' or 'error'.
C11_FiveStepsInEveryResponse ==
  \A r \in EdpRuns :
    (edp[r].pc = "done" /\ "steps" \in edp[r].resp.keys) =>
      /\ Len(edp[r].resp.steps) = 5
      /\ \A i \in 1..5 :
           /\ edp[r].resp.steps[i].id = StepIds[i]
           /\ edp[r].resp.steps[i].status \in {"completed", "error"}

\* -------------------------------------------------------------------- C12
\* C12: each of the five steps, in the handler's result and on the Index
\* page, starts 'pending', becomes 'completed' or 'error' only from
\* 'processing', and does not change after it is 'completed' or 'error'.
C12_StepProgression ==
  [][/\ \A r \in EdpRuns :
          /\ (edp[r].steps = NoSteps /\ edp'[r].steps # NoSteps)
                => \A i \in 1..5 : edp'[r].steps[i] = "pending"
          /\ (edp[r].steps # NoSteps)
                => \A i \in 1..5 :
                     /\ (edp'[r].steps[i] \in {"completed", "error"}
                           /\ edp'[r].steps[i] # edp[r].steps[i])
                          => edp[r].steps[i] = "processing"
                     /\ edp[r].steps[i] \in {"completed", "error"}
                          => edp'[r].steps[i] = edp[r].steps[i]
     /\ \A i \in 1..5 :
          /\ (ui'.steps[i].status \in {"completed", "error"}
                /\ ui'.steps[i].status # ui.steps[i].status)
               => ui.steps[i].status = "processing"
          /\ ui.steps[i].status \in {"completed", "error"}
               => ui'.steps[i].status = ui.steps[i].status]_vars

\* -------------------------------------------------------------------- C13
\* C13: for every ExtractedData, either variant of validateDocument returns
\* passed = TRUE exactly when supplier, buyer and product are all present and
\* non-blank, whatever warnings it emits.
C13_PassedIffRequiredPresent ==
  call.fn \in {"validateDocument", "validateDocumentEarlier"} =>
    (call.output.passed <=>
       \A f \in {"supplier", "buyer", "product"} :
         f \in DOMAIN call.input /\ Trim(call.input[f]) # <<>>)

\* -------------------------------------------------------------------- C14
\* the number of container-format warnings in the validator's result
ContainerWarnings(result) ==
  Len(SelectSeq(result.warnings,
                LAMBDA w : w = "Container number format invalid (expected: ABCD1234567)"))

\* C14 as stated: container number "CNU2256987" draws no container-format
\* warning and "CNU22569" draws exactly one.
C14_ContainerExamples ==
  (call.fn = "validateDocument" /\ "containerNo" \in DOMAIN call.input) =>
    /\ call.input["containerNo"] = ContainerCNU7 => ContainerWarnings(call.output) = 0
    /\ call.input["containerNo"] = ContainerShort => ContainerWarnings(call.output) = 1

\* C14 amended: "CNU2256987" (three letters and seven digits) and "CNU22569"
\* each draw exactly one container-format warning, and "ABCD1234567" (four
\* letters and seven digits) draws none.
C14_ContainerExamplesAsComputed ==
  (call.fn = "validateDocument" /\ "containerNo" \in DOMAIN call.input) =>
    /\ call.input["containerNo"] = ContainerCNU7 => ContainerWarnings(call.output) = 1
    /\ call.input["containerNo"] = ContainerShort => ContainerWarnings(call.output) = 1
    /\ call.input["containerNo"] = ContainerABCD => ContainerWarnings(call.output) = 0

C14_Witness ==
  /\ call.fn = "validateDocument"
  /\ "containerNo" \in DOMAIN call.input
  /\ call.input["containerNo"] = ContainerCNU7
  /\ ContainerWarnings(call.output) = 1

\* -------------------------------------------------------------------- C16
\* ExtractedData {supplier: "Acme Co", buyer: "Globex",
\* containerNo: "ABCD1234567", hsCode: "940540"} and no other field
IsScenario(e) ==
  /\ DOMAIN e = {"supplier", "buyer", "containerNo", "hsCode"}
  /\ e["supplier"] = AcmeCo
  /\ e["buyer"] = Globex
  /\ e["containerNo"] = ContainerABCD
  /\ e["hsCode"] = Hs940540

\* C16 as stated: for the scenario's ExtractedData the validator yields
\* passed = TRUE with no errors and no warnings.
C16_ScenarioPasses ==
  (call.fn = "validateDocument" /\ IsScenario(call.input)) =>
    /\ call.output.passed
    /\ call.output.errors = <<>>
    /\ call.output.warnings = <<>>

\* C16 amended: for the scenario's ExtractedData, which has no product, the
\* validator yields passed = FALSE with the single error "Missing required
\* field: product" and no warnings.
C16_ScenarioMissesProduct ==
  (call.fn = "validateDocument" /\ IsScenario(call.input)) =>
    /\ ~call.output.passed
    /\ call.output.errors = << <<"Missing required field: ", "product">> >>
    /\ call.output.warnings = <<>>

C16_Witness ==
  /\ call.fn = "validateDocument"
  /\ IsScenario(call.input)
  /\ Len(call.output.errors) = 1

\* -------------------------------------------------------------------- C15
\* the document text of the scenario: the four lines, one per line
ScenarioText == JoinWith(<<SupplierLine, BuyerLine, ContainerLine, HsLine>>, <<"\n">>)

\* C15 as stated: for the scenario's document text parseLayout yields 3
\* key-value pairs.
C15_ScenarioThreePairs ==
  (call.fn = "parseLayout" /\ call.input = ScenarioText) =>
    Len(call.output.structure.keyValuePairs) = 3

\* C15 amended: for the scenario's document text parseLayout yields 4
\* key-value pairs, one per line and in the order of the lines, with the
\* trimmed texts before and after the first colon as key and value.
C15_ScenarioFourPairs ==
  (call.fn = "parseLayout" /\ call.input = ScenarioText) =>
    call.output.structure.keyValuePairs =
      <<[key |-> <<"S", "u", "p", "p", "l", "i", "e", "r">>, value |-> AcmeCo],
        [key |-> <<"B", "u", "y", "e", "r">>, value |-> Globex],
        [key |-> <<"C", "o", "n", "t", "a", "i", "n", "e", "r">>, value |-> ContainerABCD],
        [key |-> <<"H", "S">>, value |-> Hs940540]>>

C15_Witness ==
  /\ call.fn = "parseLayout"
  /\ call.input = ScenarioText
  /\ Len(call.output.structure.keyValuePairs) = 4

\* -------------------------------------------------------------------- C17
\* C17: no chunk that chunkText returns is longer than the max chunk size,
\* except a chunk that is a single sentence.
C17_ChunkWithinMax ==
  call.fn = "chunkText" =>
    \A i \in 1..Len(call.output) :
      \/ Len(call.output[i]) <= call.input.maxChunkSize
      \/ \E k \in 1..Len(Sentences(call.input.text)) :
           call.output[i] = Trim(Sentences(call.input.text)[k])

\* -------------------------------------------------------------------- C18
\* the sentences of the text, trimmed and joined as chunkText joins them
JoinedSentences(text) ==
  LET ss == Sentences(text) IN
  JoinWith([k \in 1..Len(ss) |-> Trim(ss[k])], <<".", " ">>)

\* C18 as stated: the chunks chunkText returns, joined in order, hold every
\* sentence of the input once and in the original order.
C18_NoSentenceLost ==
  call.fn = "chunkText" =>
    JoinWith(call.output, <<".", " ">>) = JoinedSentences(call.input.text)

\* C18 amended: the chunks built before the length filter, joined in order,
\* hold the trimmed text of every sentence of the input once and in the
\* original order; chunkText returns those of them that are longer than 20
\* characters, in order, so the sentences that are missing from its result
\* are exactly those of the discarded chunks.
C18_NoSentenceLostBeforeFilter ==
  call.fn = "chunkText" =>
    LET before == ChunksBeforeFilter(call.input.text, call.input.maxChunkSize) IN
    /\ JoinWith(before, <<".", " ">>) = JoinedSentences(call.input.text)
    /\ call.output = SelectSeq(before, LAMBDA chunk : Len(chunk) > 20)

C18_Witness ==
  /\ call.fn = "chunkText"
  /\ Len(call.output) = 2
  /\ Len(ChunksBeforeFilter(call.input.text, call.input.maxChunkSize)) = 3
  /\ JoinWith(call.output, <<".", " ">>) # JoinedSentences(call.input.text)

\* -------------------------------------------------------------------- C19
\* C19: chunkText discards a chunk exactly when the chunk is shorter than 20
\* characters: every chunk of 20 characters or more is returned, and nothing
\* is returned for a text whose chunks are all shorter than 20 characters.
C19_DiscardsBelow20 ==
  call.fn = "chunkText" =>
    call.output = SelectSeq(ChunksBeforeFilter(call.input.text, call.input.maxChunkSize),
                            LAMBDA chunk : Len(chunk) >= 20)

\* -------------------------------------------------------------------- C20
\* C20: when the model's answer can be parsed neither directly nor by the
\* fallback parse, the extraction stage (performAIAnalysis,
\* extractStructuredData) returns an empty ExtractedData, and
\* performAIAnalysis a fallback summary with it.
C20_UnparsableYieldsEmpty ==
  (/\ call.fn \in {"performAIAnalysis", "extractStructuredData"}
   /\ ~JSONParse(call.input).ok
   /\ ~JSONParse(BraceMatch(call.input).text).ok) =>
    /\ call.output.extracted = {}
    /\ call.fn = "performAIAnalysis" =>
         call.output.summary \in {"Failed to parse analysis results",
                                  "No analysis results available"}

\* -------------------------------------------------------------------- C21
\* the first balanced {...} piece of the answer: from the first "{" to the
\* "}" that closes it
FirstBalanced(tokens) ==
  LET opens == {i \in 1..Len(tokens) : tokens[i] = "{"}
      first == CHOOSE i \in opens : \A k \in opens : i <= k
      Depth(j) == Cardinality({k \in first..j : tokens[k] = "{"})
                    - Cardinality({k \in first..j : tokens[k] = "}"})
      ends == IF opens = {} THEN {} ELSE {j \in first..Len(tokens) : Depth(j) = 0}
  IN IF ends = {} THEN [found |-> FALSE, text |-> <<>>]
     ELSE [found |-> TRUE,
           text |-> SubSeq(tokens, first, CHOOSE j \in ends : \A k \in ends : j <= k)]

\* C21: when the model's answer is a JSON object with text that is not JSON
\* in front of it and/or behind it, the extraction (performAIAnalysis,
\* analyze-docs) returns the fields of the first balanced {...} piece, not
\* its empty fallback result.
C21_WrappedJsonIsSalvaged ==
  (/\ call.fn \in {"performAIAnalysis", "analyzeDocs"}
   /\ ~JSONParse(call.input).ok
   /\ FirstBalanced(call.input).found
   /\ JSONParse(FirstBalanced(call.input).text).ok) =>
    LET keys == JSONParse(FirstBalanced(call.input).text).keys IN
    /\ call.output.extracted =
         IF call.fn = "performAIAnalysis" /\ "extracted" \in keys THEN {"supplier"} ELSE keys
    /\ call.output.summary \notin {"Failed to parse analysis results",
                                    "No analysis results available"}

\* --------------------------------------------------------------------- C22
\* the run has gone through collection setup and the setup failed
SetupFailed(r) ==
  /\ edp[r].steps # NoSteps
  /\ edp[r].steps[4] # "pending"
  /\ edp[r].pc \notin {"embed", "check", "create", "upsert"}
  /\ ~edp[r].collectionReady

\* C22: when the collection setup fails (the existence check or the create
\* request fails or throws) the storage stage sends no upsert request, the
\* vector step is reported 'error', nothing is raised past the handler (no
\* run that began the vector step reaches the catch block or answers 500),
\* and the response still carries the embeddings field computed from the
\* embeddings (the ten-dimension preview of the first chunk's vector).
C22_SetupFailureAbortsStorage ==
  \A r \in EdpRuns :
    /\ (edp[r].steps # NoSteps /\ edp[r].steps[4] # "pending")
         => /\ edp[r].pc # "catch"
            /\ (edp[r].pc = "done" => edp[r].resp.status = 200)
    /\ SetupFailed(r)
         => /\ \A u \in qdrant.upserts : u.run # r
            /\ (edp[r].pc # "end_vector" => edp[r].steps[4] = "error")
            /\ (edp[r].pc = "done"
                  => /\ edp[r].resp.steps[4].status = "error"
                     /\ "embeddings" \in edp[r].resp.keys
                     /\ edp[r].resp.embeddings = EmbeddingsPreview(edp[r].embeddings))

\* a run with computed embeddings whose collection setup failed has answered
C22_Witness ==
  \E r \in EdpRuns :
    /\ SetupFailed(r)
    /\ edp[r].pc = "done"
    /\ edp[r].embeddings > 0
    /\ edp[r].resp.status = 200
    /\ edp[r].resp.embeddings.vectors = 1
    /\ edp[r].resp.steps[4].status = "error"

\* --------------------------------------------------------------------- C23
\* C23: every failure (non-2xx) response a pipeline handler returns carries
\* both an error message and a timestamp.
C23_FailureResponsesCarryTimestamp ==
  \A r \in EdpRuns :
    (edp[r].resp.outcome = "returned" /\ edp[r].resp.status \notin 200..299)
      => {"error", "timestamp"} \subseteq edp[r].resp.keys

\* --------------------------------------------------------------------- C27
\* C27: every upsert request of the storage stage has one point per chunk and
\* every point carries the non-empty embedding of its chunk: as many vectors
\* as points, also when the embedding stage returned fewer embeddings than
\* there are chunks.
C27_OneVectorPerPoint ==
  \A u \in qdrant.upserts : u.vectors = u.points

\* --------------------------------------------------------------------- C26
\* C26: collection setup is an idempotent create-if-absent: whenever the
\* server answers the create request of ensureQdrantCollection and the
\* collection exists when the function finishes, the function returns true,
\* also when two runs perform the setup at once and both observed 404.
C26_SetupTrueWhenCollectionExists ==
  [][\A r \in EdpRuns :
       (EdpCreateCollection(r, TRUE) /\ qdrant'.collection)
         => edp'[r].collectionReady]_vars

\* --------------------------------------------------------------------- C30
\* the runAnalysis calls made so far
Started == {r \in EdpRuns : ui.invoked[r] # "none"}
\* the most recently started call
LatestStarted == CHOOSE r \in Started : \A q \in Started : q <= r

\* C30: once every analysis in flight has finished, the steps, extracted
\* data, validation and embeddings on the page are those of the response to
\* the most recently started analysis, whatever the order of arrival.
C30_LatestAnalysisShown ==
  (Started # {} /\ \A r \in Started : ui.invoked[r] = "settled")
    => (edp[LatestStarted].resp.status = 200
          => /\ ui.steps = edp[LatestStarted].resp.steps
             /\ ui.extractedData = StateOf(edp[LatestStarted].extracted)
             /\ ui.validation = StateOf(edp[LatestStarted].resp.validation)
             /\ ui.embeddings = edp[LatestStarted].resp.embeddings)

\* --------------------------------------------------------------------- C25
\* C25: in every reachable state of a job record, status 'completed' implies
\* progress = 100 and a populated result, also when two runs for the same
\* job id overlap or a run's lookup found no row.
C25_CompletedMeansFullProgress ==
  \A j \in JobIds :
    (jobs[j].exists /\ jobs[j].status = "completed")
      => (jobs[j].progress = 100 /\ jobs[j].result # "null")

\* --------------------------------------------------------------------- C28
\* every run made so far has ended with its 200 response
AllRunsSucceeded ==
  \A r \in Runs :
    run[r].pc = "idle" \/ (run[r].pc = "done" /\ run[r].resp.status = 200)

\* C28: after any sequence of successful runs with the same job id, the
\* points stored under that document id are exactly the chunks of the most
\* recent run: all of them come from one run of `of` chunks and carry the
\* chunk indexes below `of`; no point of an earlier run remains.
C28_PointsAreLatestRunsChunks ==
  AllRunsSucceeded
    => \A p \in points :
         /\ p.id[2] < p.of
         /\ \A q \in points : q.id[1] = p.id[1] => q.of = p.of

\* --------------------------------------------------------------------- C29
\* C29: a run that ends in failure leaves no persisted side effect: when the
\* catch block of a run finishes, no vector point stored under the run's
\* document id and no extracted_entities row written by the run remains
\* (stated for a run whose job id no other run carries, so that every point
\* under the document id is the run's own).
C29_FailedRunLeavesNothing ==
  [][\A r \in Runs :
       (/\ run[r].pc = "catch"
        /\ run'[r].pc = "done"
        /\ HasJobId(r)
        /\ \A q \in Runs \ {r} : run[q].pc = "idle")
         => /\ \A p \in points' : p.id[1] # DocumentId(r)
            /\ \A row \in entityRows' : row.run # r]_vars

\* --------------------------------------------------------------------- C24
\* C24: every job a run has set to 'running' eventually reaches 'completed'
\* or 'failed', also when the external call of a stage errors, times out
\* or never answers.
C24_RunningJobIsFinalized ==
  \A j \in JobIds :
    (jobs[j].exists /\ jobs[j].status = "running")
      ~> (jobs[j].status \in {"completed", "failed"})

====
